---- MODULE Spec2Model ----
(***************************************************************************)
(* Environment layer of dbt-duckdb: dbt/adapters/duckdb/environments.py    *)
(* (Environment, LocalEnvironment, DuckDBCursorWrapper, create) and        *)
(* dbt/adapters/duckdb/buenavista.py (BVEnvironment).                      *)
(*                                                                         *)
(* One Environment object is modelled from before its construction to its  *)
(* finalisation.  Every action is one call of a method of that object; the *)
(* failures of the native engine, of the network client and of the user's  *)
(* python model are inputs of the call, chosen with \E.                    *)
(***************************************************************************)
EXTENDS Integers, Sequences, FiniteSets, TLC

\* ------------------------------------------------------------------ bounds
\* number of handle() calls made on one Environment
MaxHandles == 2

\* ------------------------------------------------------------- credentials
Memory == ":memory:"
Paths == {Memory, "db.duckdb"}
\* two orders of the same extensions, and none
ExtensionLists == {<<>>, <<"httpfs", "json">>, <<"json", "httpfs">>}
\* creds.load_settings() is a dict: its items() come in insertion order
SettingLists == {<<>>, <<"threads">>}
FilesystemLists == {<<>>, <<"s3">>}
AttachLists == {<<>>, <<"att1", "att2">>}

\* credentials of a local database
LocalCreds ==
    {c \in [path : Paths, remote : {FALSE}, extensions : ExtensionLists,
            settings : SettingLists, filesystems : FilesystemLists,
            attach : AttachLists] :
        \* a plain profile, and one that declares settings, filesystems and attachments
        /\ (c.settings = <<>>) = (c.filesystems = <<>>)
        /\ (c.filesystems = <<>>) = (c.attach = <<>>)}

\* credentials of a remote target: BVEnvironment reads neither the path, the
\* filesystems nor the attachments
RemoteCreds ==
    [path : {"db.duckdb"}, remote : {TRUE}, extensions : ExtensionLists,
     settings : SettingLists, filesystems : {<<>>}, attach : {<<>>}]

CredsSet == LocalCreds \cup RemoteCreds

HandleIds == 1..MaxHandles
Identifiers == {"my_model"}
Tables == {"t"}

\* --------------------------------------------------------------- exceptions
NoErr == [cls |-> "none", msg |-> <<>>]
Raised(c, m) == [cls |-> c, msg |-> m]

\* classes the native engine raises: duckdb raises RuntimeError in old releases
\* and duckdb.Error (an Exception, no RuntimeError) in new ones
NativeErrClasses == {"RuntimeError", "duckdb.Error"}

VARIABLES
    creds,        \* the DuckDBCredentials the Environment is built from
    mode,         \* "new", "local", "remote", "local_failed", "remote_failed", "finalized"
    conn,         \* LocalEnvironment.conn: "unset" (attribute never assigned), "open", "none" (None)
    handles,      \* LocalEnvironment.handles
    hstate,       \* per handle() call: "unused", "open", "failed", "leaked", "closed", "reclosed"
    dbTables,     \* tables of the database behind the native connection
    created,      \* history: <<table, handle>> for every table created through a handle
    drained,      \* history: a close() has brought the handle count back to zero
    nativeCloses, \* history: number of times conn.close() ran on the native connection
    nativeOpens,  \* history: number of native connections duckdb.connect has opened
    hconn,        \* history: per handle, the native connection its cursor was made from (0: none)
    tmpFile,      \* module file the last call made, as the call leaves it: "none", "exists", "deleted"
    op,           \* the last call
    hid,          \* the handle the last call made (handle) or executed on (execute); 0: otherwise
    ret,          \* "none", "ok" or "raise": how the last call ended
    err,          \* the exception the last call raised (NoErr: none)
    fault,        \* the failure injected into the last call ("none": none)
    stmts,        \* statements the last call executed on the engine, in order
    phases,       \* entry points of the python module the last call invoked, in order
    job,          \* identifier of the python job the last call submitted ("": none)
    cause         \* history: the exception first raised inside the last call (NoErr: none)

vars == <<creds, mode, conn, handles, hstate, dbTables, created, drained, nativeCloses,
          nativeOpens, hconn,
          tmpFile, op, hid, ret, err, fault, stmts, phases, job, cause>>

\* ------------------------------------------------------------------ helpers
Range(s) == {s[i] : i \in 1..Len(s)}

MapSeq(s, tag) == [i \in 1..Len(s) |-> <<tag, s[i]>>]

Unused == {i \in HandleIds : hstate[i] = "unused"}

\* the id the next handle() call gets
NextId == CHOOSE i \in Unused : \A j \in Unused : i <= j

Init ==
    /\ creds \in CredsSet
    /\ mode = "new"
    /\ conn = "unset"
    /\ handles = 0
    /\ hstate = [i \in HandleIds |-> "unused"]
    /\ dbTables = {}
    /\ created = {}
    /\ drained = FALSE
    /\ nativeCloses = 0
    /\ nativeOpens = 0
    /\ hconn = [i \in HandleIds |-> 0]
    /\ tmpFile = "none"
    /\ op = "none"
    /\ hid = 0
    /\ ret = "none"
    /\ err = NoErr
    /\ fault = "none"
    /\ stmts = <<>>
    /\ phases = <<>>
    /\ job = ""
    /\ cause = NoErr

\* ------------------------------------------------- Environment.initialize_db
\* the attachments are made before the filesystems are registered
initialize_db_attach_first(c) ==
    MapSeq(c.extensions, "INSTALL") \o MapSeq(c.attach, "ATTACH")
        \o MapSeq(c.filesystems, "REGISTER")

\* the calls initialize_db makes on the connection, in the order it makes them
initialize_db(c) ==
    MapSeq(c.extensions, "INSTALL") \o MapSeq(c.filesystems, "REGISTER")
        \o MapSeq(c.attach, "ATTACH")

\* --------------------------------------------- Environment.initialize_cursor
\* the two loops of initialize_cursor swapped
initialize_cursor_settings_first(c) ==
    MapSeq(c.settings, "SET") \o MapSeq(c.extensions, "LOAD")

\* the statements initialize_cursor executes on the cursor, in order
initialize_cursor(c) ==
    MapSeq(c.extensions, "LOAD") \o MapSeq(c.settings, "SET")

\* the statements executed when the f-th one raises (f = 0: none raises)
Executed(full, f) == IF f = 0 THEN full ELSE SubSeq(full, 1, f)

\* ------------------------------------------------------ the native open fails
\* the failure is turned into the tool's runtime error
OpenFailureWrapped(e) == Raised("DbtRuntimeError", e.msg)

\* environments.py line 127 and buenavista.py lines 13-18, 27: no handler is
\* around the connect call, the caller gets the exception the library raised
OpenFailure(e) == e

\* ------------------------------------------------ LocalEnvironment.__init__
\* connectFails: duckdb.connect raises; f: the initialize_db call that raises
LocalInit(connectFails, f) ==
    /\ op' = "LocalEnvironment"
    /\ job' = ""
    /\ tmpFile' = "none"
    /\ hid' = 0
    /\ phases' = <<>>
    /\ UNCHANGED <<creds, hstate, dbTables, created, drained, nativeCloses, hconn>>
    /\ IF connectFails
       THEN /\ f = 0
            /\ mode' = "local_failed"
            /\ ret' = "raise"
            /\ cause' = Raised("duckdb.Error", <<"cannot open database">>)
            /\ err' = OpenFailure(cause')
            /\ fault' = "connect"
            /\ stmts' = <<>>
            /\ UNCHANGED <<conn, handles, nativeOpens>>
       ELSE /\ conn' = "open"
            /\ nativeOpens' = nativeOpens + 1
            /\ stmts' = Executed(initialize_db(creds), f)
            /\ IF f = 0
               THEN /\ mode' = "local"
                    /\ handles' = 0
                    /\ ret' = "ok"
                    /\ err' = NoErr
                    /\ fault' = "none"
               ELSE /\ mode' = "local_failed"
                    /\ ret' = "raise"
                    /\ err' = Raised("duckdb.Error", <<"statement failed">>)
                    /\ fault' = "statement"
                    /\ UNCHANGED handles
            /\ cause' = err'

\* -------------------------------------------------- LocalEnvironment.handle
\* handle() opens the connection again when a release has closed it
HandleReopens(c) == IF c = "none" THEN "open" ELSE c

\* line 135: handle() takes self.conn as it is and never assigns it
HandleConnection(c) == c

\* every handle() call makes its cursor from a connection of its own
CursorOfOwnConnection(k) == k + Cardinality(HandleIds \ Unused)

\* line 135: the cursor is made from self.conn, the k-th connection opened
CursorConnection(k) == k

\* f: the LOAD/SET statement that raises (0: none)
LocalHandle(f) ==
    /\ mode = "local"
    /\ Unused # {}
    /\ op' = "handle"
    /\ job' = ""
    /\ tmpFile' = "none"
    /\ hid' = NextId
    /\ phases' = <<>>
    /\ handles' = handles + 1
    /\ conn' = HandleConnection(conn)
    /\ nativeOpens' = IF conn' = "open" /\ conn # "open" THEN nativeOpens + 1 ELSE nativeOpens
    /\ UNCHANGED <<creds, mode, dbTables, created, drained, nativeCloses>>
    /\ IF conn' # "open"
       THEN \* self.conn is None: self.conn.cursor() raises AttributeError
            /\ f = 0
            /\ hstate' = [hstate EXCEPT ![NextId] = "failed"]
            /\ ret' = "raise"
            /\ err' = Raised("AttributeError", <<"'NoneType' object has no attribute 'cursor'">>)
            /\ fault' = "none"
            /\ stmts' = <<>>
            /\ UNCHANGED hconn
       ELSE /\ f \in 0..Len(initialize_cursor(creds))
            /\ hconn' = [hconn EXCEPT ![NextId] = CursorConnection(nativeOpens')]
            /\ stmts' = Executed(initialize_cursor(creds), f)
            /\ IF f = 0
               THEN /\ hstate' = [hstate EXCEPT ![NextId] = "open"]
                    /\ ret' = "ok"
                    /\ err' = NoErr
                    /\ fault' = "none"
               ELSE /\ hstate' = [hstate EXCEPT ![NextId] = "failed"]
                    /\ ret' = "raise"
                    /\ err' = Raised("duckdb.Error", <<"statement failed">>)
                    /\ fault' = "statement"
    /\ cause' = err'

\* --------------------------------------------------- LocalEnvironment.close
\* the release closes the connection whatever the count (h = 0 forgotten)
ClosesConnectionAnyCount(c, h, path) == c = "open" /\ path # Memory

\* the connection is closed while one handle is still counted
ClosesConnectionEarly(c, h, path) == c = "open" /\ h <= 1 /\ path # Memory

\* the release closes the connection of an in-memory database too
ClosesConnectionAnyPath(c, h, path) == c = "open" /\ h = 0

\* line 146: the release that closes the native connection
ClosesConnection(c, h, path) == c = "open" /\ h = 0 /\ path # Memory

\* the release counts the wrapper and its cursor
ReleasedTwice(h) == h - 2

\* line 145
Released(h) == h - 1

\* i: the handle whose wrapper close() is called; closeFails: cursor.close() raises
LocalClose(i, closeFails) ==
    /\ mode = "local"
    /\ hstate[i] \in {"open", "closed"}
    /\ op' = "close"
    /\ job' = ""
    /\ tmpFile' = "none"
    /\ hid' = 0
    /\ phases' = <<>>
    /\ stmts' = <<>>
    /\ UNCHANGED <<creds, mode, dbTables, created, nativeOpens, hconn>>
    /\ IF closeFails
       THEN /\ ret' = "raise"
            /\ err' = Raised("duckdb.Error", <<"cursor close failed">>)
            /\ fault' = "cursor_close"
            /\ UNCHANGED <<conn, handles, hstate, nativeCloses, drained>>
       ELSE /\ hstate' = [hstate EXCEPT ![i] = IF @ = "open" THEN "closed" ELSE "reclosed"]
            /\ handles' = Released(handles)
            /\ drained' = (drained \/ handles' = 0)
            /\ ret' = "ok"
            /\ err' = NoErr
            /\ fault' = "none"
            /\ IF ClosesConnection(conn, handles', creds.path)
               THEN /\ conn' = "none"
                    /\ nativeCloses' = nativeCloses + 1
               ELSE UNCHANGED <<conn, nativeCloses>>
    /\ cause' = err'

\* ------------------------------------------------- LocalEnvironment.__del__
Del ==
    /\ mode = "local"
    /\ mode' = "finalized"
    /\ op' = "__del__"
    /\ job' = ""
    /\ tmpFile' = "none"
    /\ hid' = 0
    /\ phases' = <<>>
    /\ stmts' = <<>>
    /\ fault' = "none"
    /\ UNCHANGED <<creds, handles, hstate, created, drained, nativeOpens, hconn>>
    /\ IF conn = "open"
       THEN /\ conn' = "none"
            /\ nativeCloses' = nativeCloses + 1
            /\ dbTables' = IF creds.path = Memory THEN {} ELSE dbTables
            /\ ret' = "ok"
            /\ err' = NoErr
       ELSE /\ ret' = "raise"
            \* line 151 on None (or on a conn attribute never assigned)
            /\ err' = Raised("AttributeError", <<"object has no attribute 'close'">>)
            /\ UNCHANGED <<conn, nativeCloses, dbTables>>
    /\ cause' = err'

\* ---------------------------------------------- DuckDBCursorWrapper.execute
\* lines 26-27: what the caller of execute() sees when the native cursor raises e
WrapExecute(e) ==
    IF e.cls = "RuntimeError" THEN Raised("DbtRuntimeError", e.msg) ELSE e

\* the native cursor raises on this statement
NativeFails(sql, t) ==
    \/ conn # "open"
    \/ sql = "create" /\ t \in dbTables
    \/ sql = "select" /\ t \notin dbTables

\* lines 22-25: the call made on the native cursor
NativeCall(sql, t, bindings) ==
    IF bindings THEN <<sql, t, "bindings">> ELSE <<sql, t>>

\* i: the handle; sql: "create" (create table t) or "select" (select * from t);
\* bindings: execute() is called with bindings
Execute(i, sql, t, bindings, cls) ==
    /\ mode = "local"
    /\ hstate[i] = "open"
    /\ op' = sql
    /\ job' = ""
    /\ tmpFile' = "none"
    /\ hid' = i
    /\ phases' = <<>>
    /\ stmts' = << NativeCall(sql, t, bindings) >>
    /\ UNCHANGED <<creds, mode, conn, handles, hstate, drained, nativeCloses, nativeOpens, hconn>>
    /\ IF NativeFails(sql, t)
       THEN /\ cause' = Raised(cls, <<"statement failed">>)
            /\ err' = WrapExecute(cause')
            /\ ret' = "raise"
            /\ fault' = "statement"
            /\ UNCHANGED <<dbTables, created>>
       ELSE /\ cls = "RuntimeError"
            /\ cause' = NoErr
            /\ err' = NoErr
            /\ ret' = "ok"
            /\ fault' = "none"
            /\ IF sql = "create"
               THEN /\ dbTables' = dbTables \cup {t}
                    /\ created' = created \cup {<<t, i>>}
               ELSE UNCHANGED <<dbTables, created>>

\* ------------------------------------------------ Environment.run_python_job
\* the steps of run_python_job that can raise, in program order
Stages == <<"create_file", "write", "spec", "loader", "exec_module",
            "dbtObj", "model", "materialize">>

StageNo(name) == CHOOSE k \in 1..Len(Stages) : Stages[k] = name

EntryPoints == <<"dbtObj", "model", "materialize">>

\* a failing entry point does not stop the ones after it
PhasesInvokedAll(failAt, missing) ==
    SelectSeq(EntryPoints,
              LAMBDA ph : \/ failAt = 0
                          \/ failAt >= StageNo("dbtObj"))

\* lines 107-109: the entry points called when stage failAt raises (0: none
\* raises); missing: the failing entry point is not defined by the module, so
\* the attribute lookup raises and it is not called
PhasesInvoked(failAt, missing) ==
    SelectSeq(EntryPoints,
              LAMBDA ph : \/ failAt = 0
                          \/ StageNo(ph) < failAt
                          \/ StageNo(ph) = failAt /\ ~missing)

\* line 110: except Exception
Caught(cls) == cls # "BaseException"

\* the wrapper drops the text of the original exception
JobFailureWithoutCause(e) == Raised("DbtRuntimeError", <<"Python model failed:\n">>)

\* line 111
JobFailure(e) == Raised("DbtRuntimeError", <<"Python model failed:\n">> \o e.msg)

\* the exception first raised at stage failAt
JobCause(failAt, cls, identifier, umsg) ==
    IF failAt = 0 THEN NoErr
    ELSE IF failAt <= StageNo("write") THEN Raised("OSError", <<"cannot write module file">>)
    ELSE IF failAt = StageNo("spec")
    THEN Raised("DbtRuntimeError", <<"Failed to load python model as module: ", identifier>>)
    ELSE IF failAt = StageNo("loader")
    THEN Raised("DbtRuntimeError", <<"Python module spec is missing loader: ", identifier>>)
    ELSE Raised(cls, umsg)

\* lines 92-111: what run_python_job raises (NoErr: it returns)
JobRaises(failAt, e) ==
    IF failAt = 0 THEN NoErr
    ELSE IF failAt <= StageNo("write") THEN e
    ELSE IF Caught(e.cls) THEN JobFailure(e) ELSE e

\* lines 89-91 and 112-113: the module file when run_python_job ends
ModuleFile(failAt) ==
    IF failAt = StageNo("create_file") THEN "none"
    ELSE IF failAt = StageNo("write") THEN "exists"
    ELSE "deleted"

UserErrClasses == {"ValueError", "BaseException"}
UserMessages == {<<"boom">>}

\* ---------------------------------------- LocalEnvironment.submit_python_job
LocalSubmit(i, identifier, failAt, cls, umsg, missing) ==
    /\ mode = "local"
    /\ hstate[i] = "open"
    /\ failAt < StageNo("exec_module") => cls = "ValueError"
    /\ missing => failAt >= StageNo("dbtObj") /\ cls = "AttributeError"
    /\ ~missing => cls # "AttributeError"
    /\ op' = "submit_python_job"
    /\ job' = identifier
    /\ hid' = 0
    /\ stmts' = <<>>
    /\ phases' = PhasesInvoked(failAt, missing)
    /\ tmpFile' = ModuleFile(failAt)
    /\ cause' = JobCause(failAt, cls, identifier, umsg)
    /\ err' = JobRaises(failAt, cause')
    /\ ret' = IF err' = NoErr THEN "ok" ELSE "raise"
    /\ fault' = IF failAt = 0 THEN "none" ELSE Stages[failAt]
    /\ UNCHANGED <<creds, mode, conn, handles, hstate, dbTables, created, drained, nativeCloses, nativeOpens, hconn>>

\* ---------------------------------------------------- BVEnvironment.__init__
\* the check of line 22 left out
HasRemoteUnchecked(c) == TRUE

\* line 22: the constructor goes on only with a remote target
HasRemote(c) == c.remote

BVInit ==
    /\ op' = "BVEnvironment"
    /\ job' = ""
    /\ tmpFile' = "none"
    /\ hid' = 0
    /\ phases' = <<>>
    /\ stmts' = <<>>
    /\ fault' = "none"
    /\ cause' = NoErr
    /\ UNCHANGED <<creds, conn, handles, hstate, dbTables, created, drained, nativeCloses, nativeOpens, hconn>>
    /\ IF HasRemote(creds)
       THEN /\ mode' = "remote"
            /\ ret' = "ok"
            /\ err' = NoErr
       ELSE /\ mode' = "remote_failed"
            /\ ret' = "raise"
            /\ err' = Raised("Exception", <<"BVConnection only works with a remote host">>)

\* ------------------------------------------------------ BVEnvironment.handle
\* lines 29-34: the statements handle() executes on the new connection's cursor
bv_handle_statements(c) ==
    MapSeq(c.extensions, "LOAD") \o MapSeq(c.settings, "SET")

\* connectFails: psycopg2.connect raises; f: the LOAD/SET statement that raises
BVHandle(connectFails, f) ==
    /\ mode = "remote"
    /\ Unused # {}
    /\ op' = "handle"
    /\ job' = ""
    /\ tmpFile' = "none"
    /\ hid' = NextId
    /\ phases' = <<>>
    /\ UNCHANGED <<creds, mode, conn, handles, dbTables, created, drained, nativeCloses, nativeOpens, hconn>>
    /\ IF connectFails
       THEN /\ f = 0
            /\ hstate' = [hstate EXCEPT ![NextId] = "failed"]
            /\ stmts' = <<>>
            /\ ret' = "raise"
            /\ cause' = Raised("psycopg2.OperationalError", <<"could not connect to server">>)
            /\ err' = OpenFailure(cause')
            /\ fault' = "connect"
       ELSE /\ f \in 0..Len(bv_handle_statements(creds))
            /\ stmts' = Executed(bv_handle_statements(creds), f)
            /\ IF f = 0
               THEN /\ hstate' = [hstate EXCEPT ![NextId] = "open"]
                    /\ ret' = "ok"
                    /\ err' = NoErr
                    /\ fault' = "none"
               ELSE \* the connection is open and nobody holds it
                    /\ hstate' = [hstate EXCEPT ![NextId] = "leaked"]
                    /\ ret' = "raise"
                    /\ err' = Raised("psycopg2.Error", <<"statement failed">>)
                    /\ fault' = "statement"
            /\ cause' = err'

\* --------------------------------------------------------- Environment.close
\* closing one handle closes every connection the Environment has handed out
ClosedAll(i, hs) ==
    [k \in DOMAIN hs |-> IF hs[k] = "open" THEN "closed"
                         ELSE IF k = i THEN "reclosed" ELSE hs[k]]

\* lines 118-119: cursor.close() closes the object it is given, and only it
Closed(i, hs) ==
    [hs EXCEPT ![i] = IF @ = "open" THEN "closed" ELSE "reclosed"]

\* i: the handle (a psycopg2 connection); closeFails: its close() raises
BVClose(i, closeFails) ==
    /\ mode = "remote"
    /\ hstate[i] \in {"open", "closed"}
    /\ op' = "close"
    /\ job' = ""
    /\ tmpFile' = "none"
    /\ hid' = 0
    /\ phases' = <<>>
    /\ stmts' = <<>>
    /\ UNCHANGED <<creds, mode, conn, handles, dbTables, created, drained, nativeCloses, nativeOpens, hconn>>
    /\ IF closeFails
       THEN /\ ret' = "raise"
            /\ err' = Raised("psycopg2.Error", <<"close failed">>)
            /\ fault' = "cursor_close"
            /\ UNCHANGED hstate
       ELSE /\ hstate' = Closed(i, hstate)
            /\ ret' = "ok"
            /\ err' = NoErr
            /\ fault' = "none"
    /\ cause' = err'

\* ------------------------------------------- BVEnvironment.submit_python_job
\* lines 40-46: the payload sent to the proxy
Payload(identifier) == <<"dbt_python_job", identifier>>

\* executeFails: the proxy reports a failure of the statement (the job)
BVSubmit(i, identifier, executeFails) ==
    /\ mode = "remote"
    /\ hstate[i] = "open"
    /\ op' = "submit_python_job"
    /\ job' = identifier
    /\ tmpFile' = "none"
    /\ hid' = 0
    /\ phases' = <<>>
    /\ stmts' = << Payload(identifier) >>
    /\ UNCHANGED <<creds, mode, conn, handles, hstate, dbTables, created, drained, nativeCloses, nativeOpens, hconn>>
    /\ IF executeFails
       THEN /\ ret' = "raise"
            /\ err' = Raised("psycopg2.Error", <<"job failed on the server">>)
            /\ fault' = "execute"
       ELSE /\ ret' = "ok"
            /\ err' = NoErr
            /\ fault' = "none"
    /\ cause' = err'

\* -------------------------------------------------------------------- create
Create(connectFails, f) ==
    /\ mode = "new"
    /\ IF creds.remote
       THEN connectFails = FALSE /\ f = 0 /\ BVInit
       ELSE LocalInit(connectFails, f)

\* BVEnvironment(creds) called without the factory
NewBVEnvironment ==
    /\ mode = "new"
    /\ BVInit

\* ---------------------------------------------------------------------- Next
Next ==
    \/ \E cf \in BOOLEAN, f \in 0..Len(initialize_db(creds)) : Create(cf, f)
    \/ NewBVEnvironment
    \/ \E f \in 0..Len(initialize_cursor(creds)) : LocalHandle(f)
    \/ \E i \in HandleIds, cf \in BOOLEAN : LocalClose(i, cf)
    \/ \E i \in HandleIds, sql \in {"create", "select"}, t \in Tables,
          bindings \in BOOLEAN, cls \in NativeErrClasses :
            Execute(i, sql, t, bindings, cls)
    \/ \E i \in HandleIds, id \in Identifiers, failAt \in 0..Len(Stages),
          cls \in UserErrClasses \cup {"AttributeError"}, umsg \in UserMessages,
          missing \in BOOLEAN :
            LocalSubmit(i, id, failAt, cls, umsg, missing)
    \/ Del
    \/ \E cf \in BOOLEAN, f \in 0..Len(bv_handle_statements(creds)) : BVHandle(cf, f)
    \/ \E i \in HandleIds, cf \in BOOLEAN : BVClose(i, cf)
    \/ \E i \in HandleIds, id \in Identifiers, ef \in BOOLEAN : BVSubmit(i, id, ef)

Spec == Init /\ [][Next]_vars

\* =====================================================================
\* Properties
\* =====================================================================

\* caller contract of close(): no handle is closed twice
Contract == \A i \in HandleIds : hstate[i] # "reclosed"

\* every handle() call made so far returned a handle
AllReturned == \A i \in HandleIds : hstate[i] \in {"unused", "open", "closed"}

Issued == {i \in HandleIds : hstate[i] # "unused"}

\* a constructed LocalEnvironment that has not been finalised
LiveLocal == mode = "local"

\* C1: on a LocalEnvironment whose path is not ':memory:', while no handle is
\* closed twice, a handle()/close() call closes the native connection only if
\* it is the close() that brings the handle count to zero; and once N handle()
\* calls have returned N handles and each has been closed, the connection has
\* been closed exactly once.
C1_ClosedAtZeroStep ==
    (/\ creds.path # Memory
     /\ Contract'
     /\ op' # "__del__"
     /\ conn = "open"
     /\ conn' # "open")
        => (op' = "close" /\ handles' = 0 /\ nativeCloses' = nativeCloses + 1)

C1_ClosedOnceAfterLastClose ==
    (/\ LiveLocal
     /\ creds.path # Memory
     /\ Contract
     /\ AllReturned
     /\ Issued # {}
     /\ \A i \in Issued : hstate[i] = "closed")
        => (conn = "none" /\ nativeCloses = 1 /\ handles = 0)

C1_ConnectionClosedByLastClose ==
    /\ [](C1_ClosedOnceAfterLastClose)
    /\ [][C1_ClosedAtZeroStep]_vars

\* N = MaxHandles handles acquired and then all released on a file database
C1_Witness ==
    /\ LiveLocal
    /\ creds.path # Memory
    /\ \A i \in HandleIds : hstate[i] = "closed"
    /\ op = "close"
    /\ conn = "none"
    /\ nativeCloses = 1

\* C2: on a LocalEnvironment whose path is ':memory:', no sequence of handle()
\* and close() calls closes the native connection, and a table created through
\* a handle stays visible: a select of it through any later handle succeeds.
C2_MemoryConnectionSurvives ==
    (LiveLocal /\ creds.path = Memory)
        => /\ conn = "open"
           /\ nativeCloses = 0
           /\ \A p \in created : p[1] \in dbTables
           /\ (op = "select" /\ \E p \in created : p[1] = stmts[1][2]) => ret = "ok"

\* handle 1 created the table and was closed (count back to zero), handle 2
\* was acquired afterwards and selects from the table
C2_Witness ==
    /\ LiveLocal
    /\ creds.path = Memory
    /\ drained
    /\ hstate[1] = "closed"
    /\ hstate[2] = "open"
    /\ handles = 1
    /\ <<"t", 1>> \in created
    /\ op = "select"
    /\ ret = "ok"

\* C3: every handle() call on a LocalEnvironment between construction and
\* teardown that the engine does not fail returns a ready handle: an open
\* cursor on which every declared LOAD and SET has been executed.  (Stated as
\* claimed; the code violates it once the connection was closed at count zero.)
C3_HandleAlwaysReady ==
    (LiveLocal /\ op = "handle" /\ fault = "none")
        => /\ ret = "ok"
           /\ hstate[hid] = "open"
           /\ stmts = initialize_cursor(creds)

\* C4: the handle count changes only by +1 in handle() and by -1 in close(),
\* and it is not negative while no handle has been closed twice.
C4_CountStep ==
    handles' # handles
        => \/ op' = "handle" /\ handles' = handles + 1
           \/ op' = "close" /\ handles' = handles - 1

C4_CountDiscipline ==
    /\ [](Contract => handles >= 0)
    /\ [][C4_CountStep]_vars

\* every handle acquired has been released and the count is back at zero
C4_Witness ==
    /\ mode = "local"
    /\ Contract
    /\ \A i \in HandleIds : hstate[i] = "closed"
    /\ op = "close"
    /\ handles = 0

\* C5: __del__ closes the native connection if it is still there and is a
\* no-op, not an error, when it is already absent.  (Stated as claimed; the
\* code raises AttributeError when self.conn is None.)
C5_TeardownNeverRaises ==
    op = "__del__" => (ret = "ok" /\ conn = "none")

LocalJob == op = "submit_python_job" /\ mode = "local"

\* the stages of run_python_job inside its try block
TriedStages == {"spec", "loader", "exec_module", "dbtObj", "model", "materialize"}

\* s is a contiguous part of m
Within(s, m) ==
    \E k \in 0..(Len(m) - Len(s)) : SubSeq(m, k + 1, k + Len(s)) = s

\* C6: the temporary module file is deleted on every exit path of
\* run_python_job, a failure while writing the generated code included.
\* (Stated as claimed; the code leaves the file when the write raises.)
C6_ModuleFileAlwaysDeleted ==
    LocalJob => tmpFile # "exists"

C8_SubmitWrapsEveryFailure ==
    (op = "submit_python_job" /\ mode = "remote")
        => /\ (ret = "ok" => fault = "none")
           /\ (fault # "none"
                 => /\ ret = "raise"
                    /\ err.cls = "DbtRuntimeError"
                    /\ Within(cause.msg, err.msg))

\* LOAD and SET statements of a statement list, by name
Names(ss, tag) ==
    LET sel == SelectSeq(ss, LAMBDA st : st[1] = tag)
    IN  [k \in 1..Len(sel) |-> sel[k][2]]

\* C9: every handle acquisition, Local or Remote, executes one LOAD per
\* declared extension in declared order and only then one SET per declared
\* setting; no SET is executed before the last LOAD.
C9_LoadsThenSets ==
    op = "handle"
        => /\ \A a, b \in 1..Len(stmts) :
                 (stmts[a][1] = "SET" /\ stmts[b][1] = "LOAD") => b < a
           /\ (\E a \in 1..Len(stmts) : stmts[a][1] = "SET")
                 => Names(stmts, "LOAD") = creds.extensions
           /\ ret = "ok"
                 => /\ Names(stmts, "LOAD") = creds.extensions
                    /\ Names(stmts, "SET") = creds.settings
                    /\ Len(stmts) = Len(creds.extensions) + Len(creds.settings)

\* a handle acquired with two extensions declared as json, httpfs and a setting
C9_Witness ==
    /\ op = "handle"
    /\ ret = "ok"
    /\ creds.extensions = <<"json", "httpfs">>
    /\ stmts = << <<"LOAD", "json">>, <<"LOAD", "httpfs">>, <<"SET", "threads">> >>

\* C10: constructing a BVEnvironment with no remote target raises during
\* construction, before any connection is opened: no BVEnvironment exists for
\* such credentials, so none of its handle() calls is ever made.
C10_NoRemoteFailsFast ==
    ~creds.remote
        => /\ mode # "remote"
           /\ op = "BVEnvironment"
                 => /\ mode = "remote_failed"
                    /\ ret = "raise"
                    /\ err = Raised("Exception", <<"BVConnection only works with a remote host">>)
                    /\ stmts = <<>>
                    /\ \A i \in HandleIds : hstate[i] = "unused"

C10_Witness ==
    /\ ~creds.remote
    /\ op = "BVEnvironment"
    /\ mode = "remote_failed"
    /\ ret = "raise"

\* exception classes of the native libraries (duckdb, psycopg2)
LibraryErrClasses ==
    NativeErrClasses \cup {"psycopg2.OperationalError", "psycopg2.Error"}

\* C11: when the native open fails (duckdb.connect in LocalEnvironment(),
\* psycopg2.connect in BVEnvironment.handle()), the caller gets an error of the
\* adapter (a configuration error), not the library's exception.  (Stated as
\* claimed.)
C11_OpenFailureConverted ==
    fault = "connect"
        => /\ ret = "raise"
           /\ err.cls \notin LibraryErrClasses

\* C11 as amended: when the native open fails, the exception the library
\* raised reaches the caller unchanged; no LocalEnvironment comes to exist (its
\* conn is never assigned), and the handle() call of a BVEnvironment returns
\* no handle and leaves no connection.
C11_OpenFailurePropagates ==
    fault = "connect"
        => /\ ret = "raise"
           /\ err = cause
           /\ err.cls \in LibraryErrClasses
           /\ op \in {"LocalEnvironment", "handle"}
           /\ op = "LocalEnvironment"
                 => mode = "local_failed" /\ conn = "unset" /\ nativeOpens = 0
           /\ op = "handle"
                 => mode = "remote" /\ hstate[hid] = "failed" /\ stmts = <<>>

\* psycopg2.connect failed in the second handle() call of a BVEnvironment
C11_Witness ==
    /\ mode = "remote"
    /\ op = "handle"
    /\ fault = "connect"
    /\ hstate[1] = "open"
    /\ hstate[2] = "failed"
    /\ err.cls = "psycopg2.OperationalError"

OpenHandles == {i \in HandleIds : hstate[i] = "open"}

\* C12: a LocalEnvironment opens at most one native connection; the cursors of
\* any two handles outstanding at the same time were made from that one
\* connection (each by its own handle() call); and while two handles are
\* outstanding, a table created through one of them is selected successfully
\* through the other.
C12_HandlesShareConnection ==
    mode \in {"local", "finalized"}
        => /\ nativeOpens = 1
           /\ \A i, j \in OpenHandles : hconn[i] = nativeOpens /\ hconn[j] = hconn[i]
           /\ \A i, j \in OpenHandles :
                 (/\ LiveLocal
                  /\ Contract
                  /\ i # j
                  /\ op = "select"
                  /\ hid = j
                  /\ <<stmts[1][2], i>> \in created)
                     => ret = "ok"

\* both handles are outstanding; handle 1 created the table, handle 2 selects it
C12_Witness ==
    /\ LiveLocal
    /\ OpenHandles = {1, 2}
    /\ hconn[1] = 1
    /\ hconn[2] = 1
    /\ created = {<<"t", 1>>}
    /\ op = "select"
    /\ hid = 2
    /\ ret = "ok"

\* C13: the native connection of a LocalEnvironment goes Closed -> Open ->
\* Closed: it is opened once, by the constructor, and once it has been closed
\* (by a release reaching zero or by teardown) no call opens it again, a later
\* handle() included.
C13_OpenStep ==
    /\ (conn' = "open" /\ conn # "open")
          => (op' = "LocalEnvironment" /\ conn = "unset" /\ nativeOpens = 0)
    /\ conn = "none" => conn' = "none"
    /\ (conn = "open" /\ conn' # "open")
          => (conn' = "none" /\ op' \in {"close", "__del__"})

C13_Lifecycle ==
    /\ conn = "unset" => (nativeOpens = 0 /\ nativeCloses = 0)
    /\ conn = "open" => (nativeOpens = 1 /\ nativeCloses = 0)
    /\ conn = "none" => (nativeOpens = 1 /\ nativeCloses = 1)

C13_OpenedOnceNeverReopened ==
    /\ [](C13_Lifecycle)
    /\ [][C13_OpenStep]_vars

\* handle() called after the last release closed the connection: still closed
C13_Witness ==
    /\ LiveLocal
    /\ drained
    /\ op = "handle"
    /\ ret = "raise"
    /\ conn = "none"
    /\ nativeOpens = 1

\* position of a kind of initialisation call in the order of initialize_db
InitRank(tag) ==
    IF tag = "INSTALL" THEN 1 ELSE IF tag = "REGISTER" THEN 2 ELSE 3

\* C14: the LocalEnvironment constructor calls INSTALL for every declared
\* extension, then registers every declared filesystem, then executes every
\* declared attachment, each list in declaration order; all of it is done
\* before the handle count is initialised and before any handle is issued,
\* and a constructor that fails on the way issues none.
C14_InitOrder ==
    /\ op = "LocalEnvironment"
          => /\ \A a, b \in 1..Len(stmts) :
                   a < b => InitRank(stmts[a][1]) <= InitRank(stmts[b][1])
             /\ handles = 0
             /\ Issued = {}
             /\ ret = "ok"
                   => /\ mode = "local"
                      /\ Names(stmts, "INSTALL") = creds.extensions
                      /\ Names(stmts, "REGISTER") = creds.filesystems
                      /\ Names(stmts, "ATTACH") = creds.attach
                      /\ Len(stmts) = Len(creds.extensions)
                            + Len(creds.filesystems) + Len(creds.attach)
             /\ ret = "raise" => mode = "local_failed"
    /\ mode = "local_failed" => (Issued = {} /\ handles = 0)
    /\ Issued # {} => mode \in {"local", "remote", "finalized"}

\* a constructor that installed two extensions, registered a filesystem and
\* made two attachments
C14_Witness ==
    /\ op = "LocalEnvironment"
    /\ ret = "ok"
    /\ stmts = << <<"INSTALL", "json">>, <<"INSTALL", "httpfs">>, <<"REGISTER", "s3">>,
                  <<"ATTACH", "att1">>, <<"ATTACH", "att2">> >>
    /\ handles = 0

\* C15: run_python_job calls dbtObj, then model, then materialize, each at
\* most once, and calls one only if every earlier one returned; and
\* LocalEnvironment.submit_python_job returns OK exactly when the module was
\* loaded and all three have completed, and raises otherwise.
C15_PhasesInOrder ==
    LocalJob
        => /\ \E k \in 0..Len(EntryPoints) : phases = SubSeq(EntryPoints, 1, k)
           /\ (ret = "ok") = (fault = "none")
           /\ ret = "ok" => (phases = EntryPoints /\ err = NoErr)
           /\ ret # "ok" => (ret = "raise" /\ err # NoErr)
           /\ fault \in {"create_file", "write", "spec", "loader", "exec_module"}
                 => phases = <<>>
           /\ \A k \in 1..Len(EntryPoints) :
                 fault = EntryPoints[k] => Len(phases) \in {k - 1, k}

\* model raised: dbtObj and model were called, materialize was not
C15_Witness ==
    /\ LocalJob
    /\ fault = "model"
    /\ phases = <<"dbtObj", "model">>
    /\ ret = "raise"

\* C16: on a BVEnvironment every handle() call that returns opens one new
\* connection and touches no other; there is no handle count and no shared
\* native connection; close(handle) closes that one connection and leaves
\* every other outstanding handle's connection open.
C16_RemoteStep ==
    mode = "remote"
        => /\ (op' = "handle" /\ ret' = "ok")
                 => \E i \in HandleIds :
                       /\ hstate[i] = "unused"
                       /\ hstate'[i] = "open"
                       /\ hid' = i
                       /\ \A j \in HandleIds \ {i} : hstate'[j] = hstate[j]
           /\ (op' = "close" /\ ret' = "ok")
                 => \E i \in HandleIds :
                       /\ hstate[i] \in {"open", "closed"}
                       /\ hstate'[i] \in {"closed", "reclosed"}
                       /\ hstate'[i] # hstate[i]
                       /\ \A j \in HandleIds \ {i} : hstate'[j] = hstate[j]

C16_IndependentConnections ==
    /\ [](mode = "remote" => (handles = 0 /\ conn = "unset" /\ nativeOpens = 0))
    /\ [][C16_RemoteStep]_vars

\* two connections were opened, the first was closed, the second is still open
C16_Witness ==
    /\ mode = "remote"
    /\ op = "close"
    /\ ret = "ok"
    /\ hstate[1] = "closed"
    /\ hstate[2] = "open"

\* C17: every native-engine failure raised during DuckDBCursorWrapper.execute,
\* with or without bindings, reaches the caller as DbtRuntimeError carrying
\* the original message.  (Stated as claimed; the code catches RuntimeError
\* only, so a native failure of another class reaches the caller unchanged.)
C17_ExecuteWrapsEveryFailure ==
    (op \in {"create", "select"} /\ fault = "statement")
        => /\ ret = "raise"
           /\ err.cls = "DbtRuntimeError"
           /\ err.msg = cause.msg

\* C18: on a LocalEnvironment the handle count equals the number of handles
\* that handle() returned and that are not yet closed, also after a handle()
\* call that failed in LOAD/SET and after a close() whose cursor close raised.
\* (Stated as claimed, for callers that close no handle twice; the code counts
\* the handle before it configures the cursor and does not undo the count.)
C18_CountEqualsOutstanding ==
    (LiveLocal /\ Contract) => handles = Cardinality(OpenHandles)

\* C19: on a LocalEnvironment, while no handle is closed twice and __del__ has
\* not run, the native connection is open in every state in which a handle
\* returned by handle() has not yet been closed.
C19_OpenWhileOutstanding ==
    (LiveLocal /\ Contract /\ OpenHandles # {}) => conn = "open"

\* on a file database one handle has been closed and another is outstanding
C19_Witness ==
    /\ LiveLocal
    /\ creds.path # Memory
    /\ op = "close"
    /\ ret = "ok"
    /\ \E i \in HandleIds : hstate[i] = "closed"
    /\ OpenHandles # {}
    /\ conn = "open"

\* C20: on a BVEnvironment every connection opened by handle() is returned to
\* the caller or closed, also when a LOAD or SET statement fails.  (Stated as
\* claimed; the code has no handler around the LOAD/SET loops, the connection
\* it opened is neither returned nor closed.)
C20_NoLeakedConnection ==
    mode = "remote" => \A i \in HandleIds : hstate[i] # "leaked"

====
